---- MODULE Spec2Model ----
(***************************************************************************)
(* Model of the AR activation mixin of model-viewer                        *)
(* (src/src/features/ar.ts): mode selection in update(), the AR button,    *)
(* activateAR() with its three protocols, and the fullscreenchange         *)
(* observer installed by the constructor.                                  *)
(***************************************************************************)
EXTENDS Integers, Sequences, FiniteSets, TLC

VARIABLES
    IS_WEBXR_AR_CANDIDATE,      \* platform constants imported from constants.js
    IS_ANDROID,
    IS_IOS,
    IS_AR_QUICKLOOK_CANDIDATE,
    rendererSupports,           \* what renderer.supportsPresentation() resolves to
    ar,                         \* property 'ar'
    unstableWebxr,              \* property 'unstableWebxr'
    iosSrc,                     \* property 'iosSrc'
    src,                        \* property 'src' (base class)
    alt,                        \* property 'alt' (base class)
    changedProperties,          \* names changed since the last update()
    arMode,                     \* this[$arMode]
    arButtonDisplay,            \* this[$arButton].style.display
    arButtonListener,           \* the 'click' listeners of this[$arButton], in order
    updatesAwaiting,            \* update() calls suspended in supportsPresentation()
    updateOutcome,              \* how the latest update() to get past its guard ended
    fullscreenElement,          \* document.fullscreenElement: "host" or "none"
    fullscreenchangePending,    \* a fullscreenchange event waits to be dispatched
    exitPending,                \* document.exitFullscreen() called, not yet done
    presentedScene,             \* renderer.presentedScene: "scene" or "none"
    enterFullscreen,            \* promise of the latest requestFullscreen()
    presenting,                 \* promise of the latest renderer.present()
    outputAttached,             \* the output element is a child of shadowRoot
    quickLookHref,              \* href of the anchor of openIOSARQuickLook
    arViewerHref,               \* href of the anchor of openARViewer
    activation,                 \* the latest activateAR() call
    observer,                   \* what the latest onFullscreenchange run did
    click                       \* the latest click event dispatched on the button

platform == <<IS_WEBXR_AR_CANDIDATE, IS_ANDROID, IS_IOS,
              IS_AR_QUICKLOOK_CANDIDATE, rendererSupports>>
inputs == <<ar, unstableWebxr, iosSrc, src, alt>>
affordance == <<arMode, arButtonDisplay, arButtonListener>>
updating == <<changedProperties, updatesAwaiting, updateOutcome>>
browser == <<fullscreenElement, fullscreenchangePending, exitPending>>
anchors == <<quickLookHref, arViewerHref>>
activating == <<browser, presentedScene, enterFullscreen, presenting,
                outputAttached, anchors, activation, observer>>
vars == <<platform, inputs, affordance, updating, activating, click>>

\* ------------------------------------------------------------------ bounds
MaxAwaiting == 2        \* update() calls suspended at the same time

\* ------------------------------------------------------------------ values
\* null, told apart from every character sequence
NULL == <<"">>

\* ARMode, ar.ts:58-65
QUICK_LOOK == "quick-look"
AR_VIEWER == "ar-viewer"
UNSTABLE_WEBXR == "unstable-webxr"
NONE == "none"
ARMode == {QUICK_LOOK, AR_VIEWER, UNSTABLE_WEBXR, NONE}

\* property values are character sequences, or null
IosSrcValues == {NULL, <<"m", ".", "u", "s", "d", "z">>}
SrcValues == {NULL, <<"m", ".", "g", "l", "b">>,
              <<"h", "t", "t", "p", "s", ":", "/", "/", "h", "/", "m">>}
AltValues == {NULL, <<"a", " ", "&", "b">>}

\* a guard that also lets a change of 'exposure' through
TrackedPropertiesWithExposure == {"unstableWebxr", "iosSrc", "ar", "src", "alt", "exposure"}

\* the names tested by the guard of update(), ar.ts:180-183
TrackedProperties == {"unstableWebxr", "iosSrc", "ar", "src", "alt"}
PropertyNames == TrackedProperties \cup {"exposure"}

\* --------------------------------------------------------------- selection
\* a chain that tries the AR viewer before WebXR
SelectModeViewerFirst(unstableWebxrCandidate, arViewerCandidate, iosQuickLookCandidate) ==
    IF arViewerCandidate THEN AR_VIEWER
    ELSE IF unstableWebxrCandidate THEN UNSTABLE_WEBXR
    ELSE IF iosQuickLookCandidate THEN QUICK_LOOK
    ELSE NONE

\* the if / else-if chain of update(), ar.ts:197-205
SelectMode(unstableWebxrCandidate, arViewerCandidate, iosQuickLookCandidate) ==
    IF unstableWebxrCandidate THEN UNSTABLE_WEBXR
    ELSE IF arViewerCandidate THEN AR_VIEWER
    ELSE IF iosQuickLookCandidate THEN QUICK_LOOK
    ELSE NONE

\* a button that the WebXR candidate does not show
ShowArButtonNoWebXR(unstableWebxrCandidate, arViewerCandidate, iosQuickLookCandidate) ==
    arViewerCandidate \/ iosQuickLookCandidate

\* showArButton, ar.ts:194-195
ShowArButton(unstableWebxrCandidate, arViewerCandidate, iosQuickLookCandidate) ==
    unstableWebxrCandidate \/ arViewerCandidate \/ iosQuickLookCandidate

\* arViewerCandidate, ar.ts:190
ArViewerCandidate == IS_ANDROID /\ ar

\* iosQuickLookCandidate, ar.ts:191-192 (!!iosSrc: a non-empty string)
IosQuickLookCandidate == IS_IOS /\ IS_AR_QUICKLOOK_CANDIDATE /\ iosSrc # NULL

\* the bound handler kept in this[$arButtonClickHandler], ar.ts:99-100: one
\* function object for the life of the element
arButtonClickHandler == "arButtonClickHandler"

\* a registration that does not recognise a handler it already holds, as if
\* every call were given a new function object
addEventListenerAgain(listeners, handler) == Append(listeners, handler)

\* EventTarget.addEventListener('click', handler), ar.ts:209-210: a handler
\* already in the list is not added again
addEventListener(listeners, handler) ==
    IF \E i \in 1..Len(listeners) : listeners[i] = handler
       THEN listeners ELSE Append(listeners, handler)

\* EventTarget.removeEventListener('click', handler), ar.ts:212-213
removeEventListener(listeners, handler) ==
    SelectSeq(listeners, LAMBDA h : h # handler)

\* the part of update() after the capability query, ar.ts:190-215: the
\* candidates are read from the properties as they are now, the mode is set
\* and the button shown and bound, or unbound and hidden
ApplySelection(unstableWebxrCandidate) ==
    /\ arMode' = SelectMode(unstableWebxrCandidate, ArViewerCandidate,
                            IosQuickLookCandidate)
    /\ IF ShowArButton(unstableWebxrCandidate, ArViewerCandidate,
                       IosQuickLookCandidate)
          THEN /\ arButtonDisplay' = "block"
               /\ arButtonListener' = addEventListener(arButtonListener,
                                                        arButtonClickHandler)
          ELSE /\ arButtonListener' = removeEventListener(arButtonListener,
                                                           arButtonClickHandler)
               /\ arButtonDisplay' = "none"

\* get canActivateAR, ar.ts:88-90
canActivateAR == arMode # NONE

\* ------------------------------------------------------------ URI handoff
\* window.location.toString(), ar.ts:41
WindowLocation == <<"h", "t", "t", "p", ":", "/", "/", "p", "/", "?", "q", "=", "1">>

\* a character sequence as a string
RECURSIVE Join(_)
Join(cs) == IF cs = <<>> THEN "" ELSE Head(cs) \o Join(Tail(cs))

\* the conversion of a value to a string that setAttribute() and new URL()
\* apply to their argument: null becomes the text "null"
ToChars(v) == IF v = NULL THEN <<"n", "u", "l", "l">> ELSE v

\* encodeURIComponent(), ar.ts:43,46: every character but the unreserved ones
\* is percent-encoded
EncodeChar(c) ==
    CASE c = ":" -> "%3A"
      [] c = "/" -> "%2F"
      [] c = "?" -> "%3F"
      [] c = "=" -> "%3D"
      [] c = "&" -> "%26"
      [] c = "#" -> "%23"
      [] c = " " -> "%20"
      [] OTHER -> c

RECURSIVE encodeURIComponent(_)
encodeURIComponent(cs) ==
    IF cs = <<>> THEN "" ELSE EncodeChar(Head(cs)) \o encodeURIComponent(Tail(cs))

\* index of the first ':' of a character sequence, 0 when it has none
RECURSIVE ColonAt(_, _)
ColonAt(cs, i) ==
    IF i > Len(cs) THEN 0 ELSE IF cs[i] = ":" THEN i ELSE ColonAt(cs, i + 1)

\* new URL(gltfSrc), ar.ts:42: without a base, only an absolute URL (a scheme
\* of letters, then ':') parses; anything else throws a TypeError
ParseURL(cs) ==
    LET k == ColonAt(cs, 1)
        ok == k > 1 /\ \A j \in 1..(k - 1) : cs[j] \notin {"/", "?", "#", ".", " "}
    IN  IF ok THEN [ok |-> TRUE, protocol |-> SubSeq(cs, 1, k),
                    rest |-> SubSeq(cs, k + 1, Len(cs))]
              ELSE [ok |-> FALSE, protocol |-> <<>>, rest |-> <<>>]

\* modelUrl.protocol.replace(':', ''), ar.ts:44: the first ':' is removed
ReplaceColon(cs) ==
    LET k == ColonAt(cs, 1)
    IN  IF k = 0 THEN cs ELSE SubSeq(cs, 1, k - 1) \o SubSeq(cs, k + 1, Len(cs))

\* modelUrl.protocol = 'intent://', ar.ts:47: the setter keeps what stands
\* before the first ':' as the new scheme
SetProtocol(url, value) ==
    LET k == ColonAt(value, 1)
    IN  [url EXCEPT !.protocol = IF k = 0 THEN value \o <<":">>
                                          ELSE SubSeq(value, 1, k)]

\* modelUrl.toString()
UrlToString(url) == Join(url.protocol) \o Join(url.rest)

\* a template that puts the title before the link
IntentStringTitleFirst(modelUrlString, link, title, scheme) ==
    modelUrlString \o "?title=" \o title \o "&link=" \o link
        \o "#Intent;scheme=" \o scheme
        \o ";package=com.google.ar.core;action=android.intent.action.VIEW;end;"

\* the intent template, ar.ts:49-51
IntentString(modelUrlString, link, title, scheme) ==
    modelUrlString \o "?link=" \o link \o "&title=" \o title
        \o "#Intent;scheme=" \o scheme
        \o ";package=com.google.ar.core;action=android.intent.action.VIEW;end;"

\* openARViewer(gltfSrc, title), ar.ts:40-55: the href it gives the anchor
\* before clicking it, or the TypeError of new URL()
openARViewer(gltfSrc, title) ==
    LET modelUrl == ParseURL(ToChars(gltfSrc))
        link == encodeURIComponent(WindowLocation)
        scheme == Join(ReplaceColon(modelUrl.protocol))
        intentUrl == SetProtocol(modelUrl, <<"i", "n", "t", "e", "n", "t", ":", "/", "/">>)
    IN  IF ~modelUrl.ok
           THEN [threw |-> TRUE, href |-> ""]
           ELSE [threw |-> FALSE,
                 href |-> IntentString(UrlToString(intentUrl), link,
                                       encodeURIComponent(title), scheme)]

\* a quick-look target with a query added
openIOSARQuickLookAugmented(usdzSrc) == Join(ToChars(usdzSrc)) \o "?mode=ar"

\* openIOSARQuickLook(usdzSrc), ar.ts:31-34: the href it gives the anchor
openIOSARQuickLook(usdzSrc) == Join(ToChars(usdzSrc))

\* this.alt || '', ar.ts:140
AltOrEmpty == IF alt = NULL \/ alt = <<>> THEN <<>> ELSE alt

\* ------------------------------------------------------- activation state
Settled == {"resolved", "rejected"}

\* no activateAR() call yet
NoActivation ==
    [pc |-> "idle", mode |-> NONE, result |-> "none", trace |-> <<>>,
     presented |-> "none", fullscreen |-> "none", attached |-> FALSE,
     sawFullscreen |-> "unchecked"]

\* no click dispatched on the button yet
NoClick == [dispatched |-> FALSE, defaultPrevented |-> FALSE, activations |-> 0]

\* the document, the renderer, the anchors and the activation after
\* construction, ar.ts:26-56 and 104-122
InitActivating ==
    /\ fullscreenElement = "none"
    /\ fullscreenchangePending = FALSE
    /\ exitPending = FALSE
    /\ presentedScene = "none"
    /\ enterFullscreen = "none"
    /\ presenting = "none"
    /\ outputAttached = FALSE
    /\ quickLookHref = NULL
    /\ arViewerHref = NULL
    /\ activation = NoActivation
    /\ observer = "none"
    /\ click = NoClick

\* ----------------------------------------------------------------- actions
\* state after construction, ar.ts:79-102; the platform constants and the
\* renderer's capability are fixed for the life of the page
Init ==
    /\ IS_WEBXR_AR_CANDIDATE \in BOOLEAN
    /\ IS_ANDROID \in BOOLEAN
    /\ IS_IOS \in BOOLEAN
    /\ IS_AR_QUICKLOOK_CANDIDATE \in BOOLEAN
    /\ rendererSupports \in BOOLEAN
    /\ ar = FALSE
    /\ unstableWebxr = FALSE
    /\ iosSrc = NULL
    /\ src = NULL
    /\ alt = NULL
    /\ changedProperties = {}
    /\ arMode = NONE
    /\ arButtonDisplay = "none"
    /\ arButtonListener = <<>>
    /\ updatesAwaiting = 0
    /\ updateOutcome = "none"
    /\ InitActivating

\* the host writes a property; the element records it as changed
SetAr ==
    /\ ar' = ~ar
    /\ changedProperties' = changedProperties \cup {"ar"}
    /\ UNCHANGED <<click, platform, unstableWebxr, iosSrc, src, alt, affordance,
                   updatesAwaiting, updateOutcome, activating>>

SetUnstableWebxr ==
    /\ unstableWebxr' = ~unstableWebxr
    /\ changedProperties' = changedProperties \cup {"unstableWebxr"}
    /\ UNCHANGED <<click, platform, ar, iosSrc, src, alt, affordance,
                   updatesAwaiting, updateOutcome, activating>>

SetIosSrc ==
    /\ \E v \in IosSrcValues \ {iosSrc} : iosSrc' = v
    /\ changedProperties' = changedProperties \cup {"iosSrc"}
    /\ UNCHANGED <<click, platform, ar, unstableWebxr, src, alt, affordance,
                   updatesAwaiting, updateOutcome, activating>>

SetSrc ==
    /\ \E v \in SrcValues \ {src} : src' = v
    /\ changedProperties' = changedProperties \cup {"src"}
    /\ UNCHANGED <<click, platform, ar, unstableWebxr, iosSrc, alt, affordance,
                   updatesAwaiting, updateOutcome, activating>>

SetAlt ==
    /\ \E v \in AltValues \ {alt} : alt' = v
    /\ changedProperties' = changedProperties \cup {"alt"}
    /\ UNCHANGED <<click, platform, ar, unstableWebxr, iosSrc, src, affordance,
                   updatesAwaiting, updateOutcome, activating>>

\* a property this mixin does not track changes
SetOther ==
    /\ changedProperties' = changedProperties \cup {"exposure"}
    /\ UNCHANGED <<click, platform, inputs, affordance, updatesAwaiting, updateOutcome,
                   activating>>

\* an update() that deselects the mode and hides the button while it waits
\* for the capability query
UpdateHidesWhileQuerying ==
    /\ changedProperties # {}
    /\ changedProperties' = {}
    /\ IF changedProperties \cap TrackedProperties = {}
          THEN UNCHANGED <<affordance, updatesAwaiting, updateOutcome>>
          ELSE IF unstableWebxr /\ IS_WEBXR_AR_CANDIDATE
                  THEN /\ updatesAwaiting < MaxAwaiting
                       /\ updatesAwaiting' = updatesAwaiting + 1
                       /\ arMode' = NONE
                       /\ arButtonDisplay' = "none"
                       /\ arButtonListener' = <<>>
                       /\ UNCHANGED updateOutcome
                  ELSE /\ ApplySelection(FALSE)
                       /\ updateOutcome' = "applied"
                       /\ UNCHANGED updatesAwaiting
    /\ UNCHANGED <<click, platform, inputs, activating>>

\* update(changedProperties), ar.ts:177-216, up to its end or up to the
\* await of renderer.supportsPresentation()
Update ==
    /\ changedProperties # {}
    /\ changedProperties' = {}
    /\ IF changedProperties \cap TrackedProperties = {}
          THEN UNCHANGED <<affordance, updatesAwaiting, updateOutcome>>
          ELSE IF unstableWebxr /\ IS_WEBXR_AR_CANDIDATE
                  THEN /\ updatesAwaiting < MaxAwaiting
                       /\ updatesAwaiting' = updatesAwaiting + 1
                       /\ UNCHANGED <<affordance, updateOutcome>>
                  ELSE /\ ApplySelection(FALSE)
                       /\ updateOutcome' = "applied"
                       /\ UNCHANGED updatesAwaiting
    /\ UNCHANGED <<click, platform, inputs, activating>>

\* supportsPresentation() resolves and a suspended update() goes on,
\* ar.ts:189-215
UpdateResume ==
    /\ updatesAwaiting > 0
    /\ updatesAwaiting' = updatesAwaiting - 1
    /\ ApplySelection(rendererSupports)
    /\ updateOutcome' = "applied"
    /\ UNCHANGED <<click, platform, inputs, changedProperties, activating>>

\* supportsPresentation() rejects: nothing catches it in update(), ar.ts:189
UpdateReject ==
    /\ updatesAwaiting > 0
    /\ updatesAwaiting' = updatesAwaiting - 1
    /\ updateOutcome' = "rejected"
    /\ UNCHANGED <<click, platform, inputs, changedProperties, affordance, activating>>

\* ------------------------------------------------------------- activation
\* case QUICK_LOOK of activateAR(), ar.ts:132-134
ActivateQuickLook ==
    /\ quickLookHref' = openIOSARQuickLook(iosSrc)
    /\ activation' = [NoActivation EXCEPT !.pc = "done", !.mode = arMode,
                         !.result = "resolved",
                         !.trace = <<"setHref", "click">>]
    /\ UNCHANGED <<arViewerHref, enterFullscreen, presenting>>

\* case AR_VIEWER of activateAR(), ar.ts:138-141: the full-screen request is
\* not awaited; a TypeError of openARViewer leaves the async function and
\* rejects its promise
ActivateARViewer ==
    LET opened == openARViewer(src, AltOrEmpty)
    IN  /\ enterFullscreen' = "pending"
        /\ IF opened.threw
              THEN /\ activation' = [NoActivation EXCEPT !.pc = "done",
                                        !.mode = arMode, !.result = "rejected",
                                        !.trace = <<"requestFullscreen", "throw">>]
                   /\ UNCHANGED arViewerHref
              ELSE /\ arViewerHref' = opened.href
                   /\ activation' = [NoActivation EXCEPT !.pc = "done",
                                        !.mode = arMode, !.result = "resolved",
                                        !.trace = <<"requestFullscreen", "setHref",
                                                    "click">>]
        /\ UNCHANGED <<quickLookHref, presenting>>

\* a session entry that calls present() before it requests full-screen
ActivateWebXRPresentFirst ==
    /\ enterFullscreen' = "pending"
    /\ presenting' = "pending"
    /\ activation' = [NoActivation EXCEPT !.pc = "awaitPresent", !.mode = arMode,
                         !.trace = <<"log", "present", "requestFullscreen">>]
    /\ UNCHANGED anchors

\* case UNSTABLE_WEBXR of activateAR() and $enterARWithWebXR up to the await
\* of renderer.present(), ar.ts:135-137 and 150-159
ActivateWebXR ==
    /\ enterFullscreen' = "pending"
    /\ presenting' = "pending"
    /\ activation' = [NoActivation EXCEPT !.pc = "awaitPresent", !.mode = arMode,
                         !.trace = <<"log", "requestFullscreen", "present">>]
    /\ UNCHANGED anchors

\* a default case that falls into the AR viewer case
ActivateNoneAsViewer == ActivateARViewer

\* default case of activateAR(), ar.ts:142-146
ActivateNone ==
    /\ activation' = [NoActivation EXCEPT !.pc = "done", !.mode = arMode,
                         !.result = "resolved", !.trace = <<"warn">>]
    /\ UNCHANGED <<anchors, enterFullscreen, presenting>>

\* activateAR(), ar.ts:130-148, up to its end or to its first await; one
\* call at a time, and none while a full-screen request is undecided
activateAR ==
    /\ activation.pc \in {"idle", "done"}
    /\ enterFullscreen # "pending"
    /\ CASE arMode = QUICK_LOOK -> ActivateQuickLook
         [] arMode = UNSTABLE_WEBXR -> ActivateWebXR
         [] arMode = AR_VIEWER -> ActivateARViewer
         [] OTHER -> ActivateNone
    /\ UNCHANGED <<platform, inputs, affordance, updating, browser,
                   presentedScene, outputAttached, observer>>

\* the page calls activateAR() itself
ActivateAR ==
    /\ activateAR
    /\ UNCHANGED click

\* a click event is dispatched on this[$arButton]: each listener of the list
\* runs $onARButtonClick, ar.ts:218-221, which prevents the default action
\* and calls activateAR(); with no listener nothing runs
ClickARButton ==
    /\ click' = [dispatched |-> TRUE,
                 defaultPrevented |-> arButtonListener # <<>>,
                 activations |-> Len(arButtonListener)]
    /\ IF arButtonListener # <<>>
          THEN activateAR
          ELSE /\ activation.pc \in {"idle", "done"}
               /\ enterFullscreen # "pending"
               /\ UNCHANGED <<platform, inputs, affordance, updating, activating>>

\* the browser grants the pending full-screen request
FullscreenGranted ==
    /\ enterFullscreen = "pending"
    /\ enterFullscreen' = "resolved"
    /\ fullscreenElement' = "host"
    /\ fullscreenchangePending' = (fullscreenchangePending \/ fullscreenElement # "host")
    /\ UNCHANGED <<click, platform, inputs, affordance, updating, exitPending,
                   presentedScene, presenting, outputAttached, anchors,
                   activation, observer>>

\* the browser denies the pending full-screen request
FullscreenDenied ==
    /\ enterFullscreen = "pending"
    /\ enterFullscreen' = "rejected"
    /\ UNCHANGED <<click, platform, inputs, affordance, updating, browser,
                   presentedScene, presenting, outputAttached, anchors,
                   activation, observer>>

\* renderer.present(scene) resolves with the output element
PresentResolves ==
    /\ presenting = "pending"
    /\ presenting' = "resolved"
    /\ presentedScene' = "scene"
    /\ UNCHANGED <<click, platform, inputs, affordance, updating, browser,
                   enterFullscreen, outputAttached, anchors, activation, observer>>

\* renderer.present(scene) rejects
PresentRejects ==
    /\ presenting = "pending"
    /\ presenting' = "rejected"
    /\ UNCHANGED <<click, platform, inputs, affordance, updating, browser, presentedScene,
                   enterFullscreen, outputAttached, anchors, activation, observer>>

\* a continuation that appends the output element whatever present() did
AfterPresentAlwaysAttach ==
    /\ activation.pc = "awaitPresent"
    /\ presenting \in Settled
    /\ outputAttached' = TRUE
    /\ activation' = [activation EXCEPT
                         !.pc = IF presenting = "resolved" THEN "awaitFullscreen"
                                ELSE "awaitFullscreenCaught",
                         !.presented = presenting, !.attached = TRUE,
                         !.trace = @ \o <<"appendChild">>]
    /\ UNCHANGED <<click, platform, inputs, affordance, updating, browser, presentedScene,
                   enterFullscreen, presenting, anchors, observer>>

\* a continuation that deselects the mode and hides the button when
\* present() rejects
AfterPresentResetsMode ==
    /\ activation.pc = "awaitPresent"
    /\ presenting \in Settled
    /\ IF presenting = "resolved"
          THEN /\ outputAttached' = TRUE
               /\ activation' = [activation EXCEPT !.pc = "awaitFullscreen",
                                    !.presented = "resolved", !.attached = TRUE,
                                    !.trace = @ \o <<"appendChild">>]
               /\ UNCHANGED affordance
          ELSE /\ activation' = [activation EXCEPT !.pc = "awaitFullscreenCaught",
                                    !.presented = "rejected",
                                    !.trace = @ \o <<"warn", "error">>]
               /\ arMode' = NONE
               /\ arButtonDisplay' = "none"
               /\ arButtonListener' = <<>>
               /\ UNCHANGED outputAttached
    /\ UNCHANGED <<click, platform, inputs, updating, browser, presentedScene,
                   enterFullscreen, presenting, anchors, observer>>

\* a continuation that calls present() a second time after a first rejection
AfterPresentRetries ==
    /\ activation.pc = "awaitPresent"
    /\ presenting \in Settled
    /\ IF presenting = "resolved"
          THEN /\ outputAttached' = TRUE
               /\ activation' = [activation EXCEPT !.pc = "awaitFullscreen",
                                    !.presented = "resolved", !.attached = TRUE,
                                    !.trace = @ \o <<"appendChild">>]
               /\ UNCHANGED presenting
          ELSE IF Len(activation.trace) = 3
                  THEN /\ presenting' = "pending"
                       /\ activation' = [activation EXCEPT
                                            !.trace = @ \o <<"warn", "present">>]
                       /\ UNCHANGED outputAttached
                  ELSE /\ activation' = [activation EXCEPT
                                            !.pc = "awaitFullscreenCaught",
                                            !.presented = "rejected",
                                            !.trace = @ \o <<"warn", "error">>]
                       /\ UNCHANGED <<outputAttached, presenting>>
    /\ UNCHANGED <<click, platform, inputs, affordance, updating, browser, presentedScene,
                   enterFullscreen, anchors, observer>>

\* $enterARWithWebXR after the await of present(), ar.ts:159-164: the output
\* element is appended, or the rejection is caught and logged
AfterPresent ==
    /\ activation.pc = "awaitPresent"
    /\ presenting \in Settled
    /\ IF presenting = "resolved"
          THEN /\ outputAttached' = TRUE
               /\ activation' = [activation EXCEPT !.pc = "awaitFullscreen",
                                    !.presented = "resolved", !.attached = TRUE,
                                    !.trace = @ \o <<"appendChild">>]
          ELSE /\ activation' = [activation EXCEPT !.pc = "awaitFullscreenCaught",
                                    !.presented = "rejected",
                                    !.trace = @ \o <<"warn", "error">>]
               /\ UNCHANGED outputAttached
    /\ UNCHANGED <<click, platform, inputs, affordance, updating, browser, presentedScene,
                   enterFullscreen, presenting, anchors, observer>>

\* a catch block that never leaves full-screen
ExitIfFullscreenNever ==
    /\ activation' = [activation EXCEPT !.pc = "done", !.result = "resolved",
                         !.fullscreen = "resolved",
                         !.sawFullscreen = IF fullscreenElement = "host"
                                           THEN "yes" ELSE "no"]
    /\ UNCHANGED exitPending

\* a catch block that leaves full-screen whoever holds it
ExitIfFullscreenAlways ==
    /\ exitPending' = TRUE
    /\ activation' = [activation EXCEPT !.pc = "done", !.result = "resolved",
                         !.fullscreen = "resolved",
                         !.sawFullscreen = IF fullscreenElement = "host"
                                           THEN "yes" ELSE "no",
                         !.trace = @ \o <<"warn", "exitFullscreen">>]

\* the exit of the catch block of ar.ts:162-170 once enterFullscreen has
\* resolved: full-screen is left if this host holds it
ExitIfFullscreen ==
    IF fullscreenElement = "host"
       THEN /\ exitPending' = TRUE
            /\ activation' = [activation EXCEPT !.pc = "done", !.result = "resolved",
                                 !.fullscreen = "resolved", !.sawFullscreen = "yes",
                                 !.trace = @ \o <<"warn", "exitFullscreen">>]
       ELSE /\ activation' = [activation EXCEPT !.pc = "done", !.result = "resolved",
                                 !.fullscreen = "resolved", !.sawFullscreen = "no"]
            /\ UNCHANGED exitPending

\* a continuation whose rejected full-screen request, after a successful
\* present(), leaves the function uncaught
AfterFullscreenUncaught ==
    /\ activation.pc \in {"awaitFullscreen", "awaitFullscreenCaught"}
    /\ enterFullscreen \in Settled
    /\ IF activation.pc = "awaitFullscreen"
          THEN /\ activation' = [activation EXCEPT !.pc = "done",
                                    !.fullscreen = enterFullscreen,
                                    !.result = enterFullscreen]
               /\ UNCHANGED exitPending
          ELSE IF enterFullscreen = "resolved"
                  THEN ExitIfFullscreen
                  ELSE /\ activation' = [activation EXCEPT !.pc = "done",
                                            !.fullscreen = "rejected",
                                            !.result = "resolved",
                                            !.trace = @ \o <<"error", "warn">>]
                       /\ UNCHANGED exitPending
    /\ UNCHANGED <<click, platform, inputs, affordance, updating, fullscreenElement,
                   fullscreenchangePending, presentedScene, enterFullscreen,
                   presenting, outputAttached, anchors, observer>>

\* $enterARWithWebXR after an await of enterFullscreen, ar.ts:161-174.  The
\* await of line 161 stands inside the inner try: a rejection there is caught
\* at line 162 and the promise awaited again at line 165, where the rejection
\* reaches the outer catch of line 171
AfterFullscreen ==
    /\ activation.pc \in {"awaitFullscreen", "awaitFullscreenCaught"}
    /\ enterFullscreen \in Settled
    /\ IF activation.pc = "awaitFullscreen"
          THEN /\ IF enterFullscreen = "resolved"
                     THEN activation' = [activation EXCEPT !.pc = "done",
                                            !.fullscreen = "resolved",
                                            !.result = "resolved"]
                     ELSE activation' = [activation EXCEPT
                                            !.pc = "awaitFullscreenCaught",
                                            !.fullscreen = "rejected",
                                            !.trace = @ \o <<"warn", "error">>]
               /\ UNCHANGED exitPending
          ELSE IF enterFullscreen = "resolved"
                  THEN ExitIfFullscreen
                  ELSE /\ activation' = [activation EXCEPT !.pc = "done",
                                            !.fullscreen = "rejected",
                                            !.result = "resolved",
                                            !.trace = @ \o <<"error", "warn">>]
                       /\ UNCHANGED exitPending
    /\ UNCHANGED <<click, platform, inputs, affordance, updating, fullscreenElement,
                   fullscreenchangePending, presentedScene, enterFullscreen,
                   presenting, outputAttached, anchors, observer>>

\* the browser carries out document.exitFullscreen()
ExitFullscreenDone ==
    /\ exitPending
    /\ exitPending' = FALSE
    /\ fullscreenElement' = "none"
    /\ fullscreenchangePending' = (fullscreenchangePending \/ fullscreenElement = "host")
    /\ UNCHANGED <<click, platform, inputs, affordance, updating, presentedScene,
                   enterFullscreen, presenting, outputAttached, anchors,
                   activation, observer>>

\* full-screen is left by means outside this code (the Escape key)
ExternalExit ==
    /\ fullscreenElement = "host"
    /\ fullscreenElement' = "none"
    /\ fullscreenchangePending' = TRUE
    /\ UNCHANGED <<click, platform, inputs, affordance, updating, exitPending,
                   presentedScene, enterFullscreen, presenting, outputAttached,
                   anchors, activation, observer>>

\* the renderer ends the presentation by itself (the session ends)
SessionEnds ==
    /\ presentedScene = "scene"
    /\ presentedScene' = "none"
    /\ UNCHANGED <<click, platform, inputs, affordance, updating, browser,
                   enterFullscreen, presenting, outputAttached, anchors,
                   activation, observer>>

\* an observer without the try / catch around stopPresenting()
OnFullscreenchangeUncaught(stopThrows, stillPresented) ==
    IF fullscreenElement # "host" /\ presentedScene = "scene"
       THEN /\ observer' = IF stopThrows THEN "escaped" ELSE "stopped"
            /\ presentedScene' = IF stopThrows /\ stillPresented THEN "scene" ELSE "none"
       ELSE /\ observer' = "nothing"
            /\ UNCHANGED presentedScene

\* the body of onFullscreenchange, ar.ts:109-119, for one outcome of
\* renderer.stopPresenting(); a stop that throws may or may not have ended
\* the presentation
OnFullscreenchange(stopThrows, stillPresented) ==
    IF fullscreenElement # "host" /\ presentedScene = "scene"
       THEN IF stopThrows
               THEN /\ observer' = "caught"
                    /\ presentedScene' = IF stillPresented THEN "scene" ELSE "none"
               ELSE /\ observer' = "stopped"
                    /\ presentedScene' = "none"
       ELSE /\ observer' = "nothing"
            /\ UNCHANGED presentedScene

\* a fullscreenchange event is dispatched to the listener of ar.ts:121
Fullscreenchange ==
    /\ fullscreenchangePending
    /\ fullscreenchangePending' = FALSE
    /\ \E stopThrows \in BOOLEAN, stillPresented \in BOOLEAN :
           OnFullscreenchange(stopThrows, stillPresented)
    /\ UNCHANGED <<click, platform, inputs, affordance, updating, fullscreenElement,
                   exitPending, enterFullscreen, presenting, outputAttached,
                   anchors, activation>>

\* a page whose update() calls have all finished, with any mode update() can
\* select on the platform and any values written to the properties since
InitActivate ==
    /\ IS_WEBXR_AR_CANDIDATE \in BOOLEAN
    /\ IS_ANDROID \in BOOLEAN
    /\ IS_IOS \in BOOLEAN
    /\ IS_AR_QUICKLOOK_CANDIDATE \in BOOLEAN
    /\ rendererSupports \in BOOLEAN
    /\ ar \in BOOLEAN
    /\ unstableWebxr \in BOOLEAN
    /\ iosSrc \in IosSrcValues
    /\ src \in SrcValues
    /\ alt \in AltValues
    /\ changedProperties = PropertyNames
    /\ arMode \in {m \in ARMode :
                     \/ m = NONE
                     \/ m = UNSTABLE_WEBXR /\ IS_WEBXR_AR_CANDIDATE /\ rendererSupports
                     \/ m = AR_VIEWER /\ IS_ANDROID
                     \/ m = QUICK_LOOK /\ IS_IOS /\ IS_AR_QUICKLOOK_CANDIDATE}
    /\ arButtonDisplay = IF arMode = NONE THEN "none" ELSE "block"
    /\ arButtonListener = IF arMode = NONE THEN <<>> ELSE <<arButtonClickHandler>>
    /\ updatesAwaiting = 0
    /\ updateOutcome = "applied"
    /\ InitActivating

NextActivate ==
    \/ ActivateAR
    \/ FullscreenGranted
    \/ FullscreenDenied
    \/ PresentResolves
    \/ PresentRejects
    \/ AfterPresent
    \/ AfterFullscreen
    \/ ExitFullscreenDone
    \/ ExternalExit
    \/ SessionEnds
    \/ Fullscreenchange

SpecActivate == InitActivate /\ [][NextActivate]_vars

Next ==
    \/ SetAr
    \/ SetUnstableWebxr
    \/ SetIosSrc
    \/ SetSrc
    \/ SetAlt
    \/ SetOther
    \/ Update
    \/ UpdateResume
    \/ UpdateReject

Spec == Init /\ [][Next]_vars

\* updates and clicks on the button: the opt-ins and the iOS asset are
\* written, updates run, and the button is clicked between activations
NextClick ==
    \/ SetAr
    \/ SetUnstableWebxr
    \/ SetIosSrc
    \/ Update
    \/ UpdateResume
    \/ UpdateReject
    \/ ClickARButton
    \/ FullscreenDenied
    \/ PresentRejects
    \/ AfterPresent
    \/ AfterFullscreen

SpecClick == Init /\ [][NextClick]_vars

\* ------------------------------------------------------------------ claims
\* the mode the precedence of the design gives for the properties as they
\* are, when the unstable-webxr opt-in that counts is optedIn: unstable-webxr
\* when opted in and the platform reports presentation support, else
\* ar-viewer on Android with the AR opt-in, else quick-look on an iOS
\* quick-look candidate with an iOS asset, else none
IsModeByPrecedence(m, optedIn) ==
    LET webxr == optedIn /\ IS_WEBXR_AR_CANDIDATE /\ rendererSupports
        viewer == IS_ANDROID /\ ar
        quickLook == IS_IOS /\ IS_AR_QUICKLOOK_CANDIDATE /\ iosSrc # NULL
    IN  /\ (m = UNSTABLE_WEBXR) <=> webxr
        /\ (m = AR_VIEWER) <=> (~webxr /\ viewer)
        /\ (m = QUICK_LOOK) <=> (~webxr /\ ~viewer /\ quickLook)
        /\ (m = NONE) <=> (~webxr /\ ~viewer /\ ~quickLook)
        /\ m \in ARMode

\* an update() that runs to its end without suspending
UpdateCompletesAtOnce ==
    /\ Update
    /\ changedProperties \cap TrackedProperties # {}
    /\ ~(unstableWebxr /\ IS_WEBXR_AR_CANDIDATE)

\* C1: an update() that completes selects the one mode the precedence gives
\* for the flags it read: the opt-in as read when it began (a suspended
\* update read it as set), the query's answer, and the other flags as they
\* are when it completes; unstable-webxr wins over ar-viewer and quick-look.
C1_ModeFollowsPrecedence ==
    [][/\ UpdateCompletesAtOnce => IsModeByPrecedence(arMode', unstableWebxr)
       /\ UpdateResume => IsModeByPrecedence(arMode', TRUE)]_vars

C1_Witness ==
    /\ arMode = UNSTABLE_WEBXR
    /\ unstableWebxr /\ IS_ANDROID /\ ar
    /\ IS_IOS /\ IS_AR_QUICKLOOK_CANDIDATE /\ iosSrc # NULL
    /\ updateOutcome = "applied" /\ updatesAwaiting = 0 /\ changedProperties = {}

\* C2: in every state the button is visible iff the mode is not none, the
\* click handler is bound iff the button is visible, and canActivateAR is
\* true iff the mode is not none.
C2_AffordanceTracksMode ==
    /\ (arButtonDisplay = "block") <=> (arMode # NONE)
    /\ (arButtonListener # <<>>) <=> (arButtonDisplay = "block")
    /\ canActivateAR <=> (arMode # NONE)
    /\ arButtonDisplay \in {"block", "none"}

C2_Witness ==
    /\ arMode = UNSTABLE_WEBXR
    /\ arButtonDisplay = "block" /\ arButtonListener # <<>>
    /\ ~ar /\ iosSrc = NULL
    /\ updatesAwaiting > 1

\* C6: when supportsPresentation() rejects, the update goes on with support
\* taken as false: it sets the mode the precedence gives without
\* unstable-webxr, shows or hides the button to match, and does not reject.
C6_QueryFailureFallsThrough ==
    [][UpdateReject =>
         /\ IsModeByPrecedence(arMode', FALSE)
         /\ (arButtonDisplay' = "block") <=> (arMode' # NONE)
         /\ updateOutcome' # "rejected"]_vars

\* C7: once no update is scheduled or suspended, the mode is the one the
\* precedence gives for the properties as they are now.
C7_NoStaleResult ==
    (updatesAwaiting = 0 /\ changedProperties = {} /\ updateOutcome = "applied")
        => IsModeByPrecedence(arMode, unstableWebxr)

\* the effects an activation has logged, as a set
Effects == {activation.trace[i] : i \in 1..Len(activation.trace)}

\* an unstable-webxr activation that has returned
WebXRDone == activation.pc = "done" /\ activation.mode = UNSTABLE_WEBXR

\* C3: whatever the mode and the inputs, the promise of activateAR() is
\* never rejected.
C3_ActivationNeverRejects == activation.result # "rejected"

\* C4: after an unstable-webxr activation whose present() rejected and whose
\* full-screen request resolved, the activation has attached no output
\* element, it has asked to leave full-screen if the host held it, and the
\* host holds full-screen no longer unless the exit asked for is still to
\* be carried out.
C4_FullscreenExitedAfterFailedPresent ==
    (WebXRDone /\ activation.presented = "rejected"
               /\ activation.fullscreen = "resolved")
        => /\ ~activation.attached
           /\ activation.sawFullscreen = "yes" => "exitFullscreen" \in Effects
           /\ fullscreenElement = "host" => exitPending

C4_Witness ==
    /\ WebXRDone
    /\ activation.presented = "rejected" /\ activation.fullscreen = "resolved"
    /\ activation.sawFullscreen = "yes" /\ exitPending
    /\ fullscreenElement = "host"

C8_ActivationInModeNoneIsNoOp ==
    [][(ActivateAR /\ arMode = NONE) =>
         /\ activation'.pc = "done" /\ activation'.result = "resolved"
         /\ activation'.trace = <<"warn">>
         /\ UNCHANGED <<affordance, browser, enterFullscreen, presenting,
                        presentedScene, outputAttached, anchors>>]_vars

C8_Witness ==
    /\ activation.pc = "done" /\ activation.mode = NONE
    /\ activation.trace = <<"warn">>
    /\ arMode = NONE /\ arButtonDisplay = "none"

\* C9: at a fullscreenchange event, if the host does not hold full-screen
\* and the renderer presents this scene, the observer asks the renderer to
\* stop and an error of the stop does not escape; otherwise it does nothing.
C9_ObserverStopsPresentation ==
    [][Fullscreenchange =>
         IF fullscreenElement # "host" /\ presentedScene = "scene"
            THEN observer' \in {"stopped", "caught"}
            ELSE observer' = "nothing" /\ UNCHANGED presentedScene]_vars

C9_Witness == observer = "caught" /\ presentedScene = "scene"

\* the intent URI of the design for the asset https://h/m, the page
\* http://p/?q=1 and an encoded title
ExpectedIntent(encodedTitle) ==
    "intent://h/m?link=http%3A%2F%2Fp%2F%3Fq%3D1&title=" \o encodedTitle
        \o "#Intent;scheme=https;package=com.google.ar.core;"
        \o "action=android.intent.action.VIEW;end;"

AbsoluteSrc == <<"h", "t", "t", "p", "s", ":", "/", "/", "h", "/", "m">>

\* C10: in ar-viewer mode with an absolute asset URL, activation clicks the
\* anchor with the intent URI made of the asset URL under the intent
\* scheme, link = the encoded page location, title = the encoded title
\* (empty when absent), the asset's scheme, the package and the action.
C10_IntentUri ==
    (activation.pc = "done" /\ activation.mode = AR_VIEWER /\ src = AbsoluteSrc)
        => /\ activation.result = "resolved"
           /\ activation.trace = <<"requestFullscreen", "setHref", "click">>
           /\ arViewerHref = ExpectedIntent(IF alt = NULL THEN "" ELSE "a%20%26b")

C10_Witness ==
    /\ activation.pc = "done" /\ activation.mode = AR_VIEWER
    /\ src = AbsoluteSrc /\ alt # NULL
    /\ arViewerHref = ExpectedIntent("a%20%26b")


\* C11: in quick-look mode activation sets the anchor's target to the iOS
\* asset reference as it is when activateAR() is called (the text "null"
\* when it has been removed since the update), with nothing added, clicks
\* the anchor once, and requests neither full-screen nor a presentation.
C11_QuickLookTarget ==
    [][(ActivateAR /\ arMode = QUICK_LOOK) =>
         /\ quickLookHref' = (IF iosSrc = NULL THEN "null" ELSE "m.usdz")
         /\ activation'.trace = <<"setHref", "click">>
         /\ activation'.result = "resolved"
         /\ UNCHANGED <<enterFullscreen, presenting, arViewerHref, browser>>]_vars

C11_Witness ==
    /\ activation.pc = "done" /\ activation.mode = QUICK_LOOK
    /\ iosSrc # NULL /\ quickLookHref = "m.usdz"
    /\ enterFullscreen = "none" /\ presenting = "none"


\* C12: no step of activateAR() changes the selected mode, the button's
\* visibility or its handler binding, and an activateAR() call that follows
\* a finished one dispatches on the mode the finished one dispatched on,
\* whatever the mode and however the first call ended.
C12_ActivationKeepsMode ==
    [][(ActivateAR \/ AfterPresent \/ AfterFullscreen) =>
         /\ UNCHANGED affordance
         /\ (ActivateAR => activation'.mode = arMode)
         /\ (ActivateAR /\ activation.pc = "done" =>
               activation'.mode = activation.mode)]_vars

\* a second unstable-webxr activation has finished: the output element was
\* attached by an earlier call, not by this one
C12_Witness ==
    /\ WebXRDone
    /\ activation.presented = "rejected"
    /\ ~activation.attached
    /\ outputAttached
    /\ arMode = UNSTABLE_WEBXR


\* C13: in an unstable-webxr activation the full-screen request is made
\* before present() is called, and the activation learns the outcome of the
\* full-screen request only after present() has settled: while it waits for
\* present() it has observed nothing of the request, even one that is
\* already granted or denied.
C13_FullscreenRequestedFirstObservedLast ==
    (activation.mode = UNSTABLE_WEBXR /\ activation.pc # "idle") =>
        /\ SubSeq(activation.trace, 1, 3) = <<"log", "requestFullscreen", "present">>
        /\ (activation.pc = "awaitPresent" =>
              activation.fullscreen = "none" /\ activation.presented = "none")
        /\ (activation.fullscreen # "none" => activation.presented \in Settled)
        /\ (activation.pc # "awaitPresent" => activation.presented \in Settled)

\* the full-screen request has settled while present() is still pending
C13_Witness ==
    /\ activation.mode = UNSTABLE_WEBXR
    /\ activation.pc = "awaitPresent"
    /\ enterFullscreen \in Settled
    /\ presenting = "pending"
    /\ activation.fullscreen = "none"


\* C14: a finished unstable-webxr activation has resolved, whichever of
\* present() and the full-screen request resolved or rejected; when
\* present() resolved and the full-screen request rejected, the output
\* element is attached and no full-screen exit was requested.
C14_WebXRActivationResolves ==
    WebXRDone =>
        /\ activation.result = "resolved"
        /\ activation.presented \in Settled
        /\ activation.fullscreen \in Settled
        /\ ((activation.presented = "resolved" /\ activation.fullscreen = "rejected") =>
              /\ activation.attached
              /\ outputAttached
              /\ "exitFullscreen" \notin Effects)

C14_Witness ==
    /\ WebXRDone
    /\ activation.presented = "resolved"
    /\ activation.fullscreen = "rejected"
    /\ activation.result = "resolved"


\* nothing of an activation is in flight and no event waits for dispatch
Quiescent ==
    /\ activation.pc \in {"idle", "done"}
    /\ enterFullscreen # "pending"
    /\ presenting # "pending"
    /\ ~fullscreenchangePending
    /\ ~exitPending

\* C15: once no activation is in flight and no fullscreenchange event is
\* pending, the renderer presents this host's scene only if the host is the
\* full-screen element, and an unstable-webxr activation whose present()
\* rejected has not left the host in full-screen.
C15_ConsistentWithRenderer ==
    Quiescent =>
        /\ (presentedScene = "scene" => fullscreenElement = "host")
        /\ ((WebXRDone /\ activation.presented = "rejected"
               /\ presentedScene = "none" /\ activation.fullscreen = "resolved") =>
              fullscreenElement # "host")


\* how many times the latest activateAR() call has attempted an operation
Attempts(op) ==
    Cardinality({i \in 1..Len(activation.trace) : activation.trace[i] = op})

\* C18: one activateAR() call attempts each operation at most once: in
\* unstable-webxr mode exactly one full-screen request and one present()
\* call, in ar-viewer mode exactly one full-screen request and at most one
\* anchor click, in quick-look mode exactly one anchor click, and in any
\* mode at most one full-screen exit, whichever steps fail.
C18_NoRetry ==
    activation.pc # "idle" =>
        /\ \A op \in {"requestFullscreen", "present", "click", "exitFullscreen",
                      "appendChild", "setHref"} : Attempts(op) <= 1
        /\ (activation.mode = UNSTABLE_WEBXR =>
              /\ Attempts("requestFullscreen") = 1
              /\ Attempts("present") = 1
              /\ Attempts("click") = 0)
        /\ (activation.mode = AR_VIEWER =>
              /\ Attempts("requestFullscreen") = 1
              /\ Attempts("present") = 0
              /\ Attempts("click") = (IF activation.result = "resolved" THEN 1 ELSE 0)
              /\ Attempts("exitFullscreen") = 0)
        /\ (activation.mode = QUICK_LOOK =>
              /\ Attempts("click") = 1
              /\ Attempts("requestFullscreen") = 0
              /\ Attempts("present") = 0
              /\ Attempts("exitFullscreen") = 0)
        /\ (activation.mode = NONE => activation.trace = <<"warn">>)

\* an activation whose present() rejected has finished with its one
\* full-screen exit
C18_Witness ==
    /\ WebXRDone
    /\ activation.presented = "rejected"
    /\ Attempts("present") = 1
    /\ Attempts("requestFullscreen") = 1
    /\ Attempts("exitFullscreen") = 1


\* C20: an unstable-webxr activation requests a full-screen exit only where
\* its present() rejected, its full-screen request resolved and the host is
\* the full-screen element at that moment; an activation whose present()
\* resolved requests no exit and does not end the presentation; the output
\* element is attached only after present() resolved.
C20_ExitOnlyAfterFailedPresent ==
    [][(activation'.mode = UNSTABLE_WEBXR /\ activation'.pc # "idle") =>
         /\ ("exitFullscreen" \in {activation'.trace[i] : i \in 1..Len(activation'.trace)} =>
               /\ activation'.presented = "rejected"
               /\ activation'.fullscreen = "resolved"
               /\ activation'.sawFullscreen = "yes")
         /\ (activation'.presented = "resolved" =>
               /\ "exitFullscreen" \notin {activation'.trace[i] : i \in 1..Len(activation'.trace)}
               /\ activation'.sawFullscreen = "unchecked")
         /\ (activation'.attached => activation'.presented = "resolved" /\ outputAttached')
         /\ ((ActivateAR \/ AfterPresent \/ AfterFullscreen) =>
               /\ UNCHANGED presentedScene
               /\ (outputAttached' # outputAttached => presenting = "resolved")
               /\ (Len(activation'.trace) > Len(activation.trace)
                     /\ activation'.trace[Len(activation'.trace)] = "exitFullscreen" =>
                     /\ exitPending'
                     /\ activation.presented = "rejected"
                     /\ enterFullscreen = "resolved"
                     /\ fullscreenElement = "host"))]_vars

\* the exit has been requested and not yet carried out
C20_Witness ==
    /\ WebXRDone
    /\ activation.sawFullscreen = "yes"
    /\ "exitFullscreen" \in Effects
    /\ exitPending
    /\ fullscreenElement = "host"


\* C16: the step of update() that issues the capability query and suspends
\* leaves the mode, the button's visibility and its handler binding as they
\* were; they change only in a step in which an update() completes and
\* applies its selection, and then mode, visibility and binding are set
\* together.
C16_AffordanceHeldWhileQuerying ==
    [][/\ ((Update /\ updatesAwaiting' > updatesAwaiting) => UNCHANGED affordance)
       /\ (affordance' # affordance =>
             /\ (UpdateResume \/ UpdateCompletesAtOnce)
             /\ updateOutcome' = "applied"
             /\ (arButtonDisplay' = "block") <=> (arMode' # NONE)
             /\ (arButtonListener' # <<>>) <=> (arMode' # NONE))
       /\ (updatesAwaiting' > 0 /\ updatesAwaiting' >= updatesAwaiting
             /\ ~UpdateCompletesAtOnce => UNCHANGED affordance)]_vars

\* a query is pending whose answer will change the mode, and the mode and
\* the button of the update before it still stand
C16_Witness ==
    /\ updatesAwaiting > 0
    /\ unstableWebxr /\ IS_WEBXR_AR_CANDIDATE /\ rendererSupports
    /\ arMode = AR_VIEWER
    /\ arButtonDisplay = "block"
    /\ arButtonListener = <<arButtonClickHandler>>
    /\ changedProperties = {}


\* C17: an update() whose changed properties include none of unstableWebxr,
\* iosSrc, ar, src and alt issues no capability query and leaves the mode,
\* the button's visibility and its handler binding unchanged; it only
\* consumes the change record.
C17_UntrackedUpdateIsNoOp ==
    [][(Update /\ changedProperties \cap {"unstableWebxr", "iosSrc", "ar", "src", "alt"} = {}) =>
         /\ UNCHANGED <<arMode, arButtonDisplay, arButtonListener>>
         /\ UNCHANGED <<updatesAwaiting, updateOutcome>>
         /\ changedProperties' = {}]_vars

\* an update of an untracked property alone is due while a mode is selected
\* that the properties as they are now would not give, and a query is
\* pending: a run of the selection would be visible
C17_Witness ==
    /\ changedProperties = {"exposure"}
    /\ arMode = AR_VIEWER
    /\ ~ar
    /\ arButtonDisplay = "block"
    /\ updatesAwaiting > 0


\* C19: the button never holds more than one click listener, however many
\* updates in a row select a mode; a click on the visible button has its
\* default action prevented and dispatches activateAR() exactly once, on the
\* selected mode; a click while the mode is none runs no handler and
\* dispatches no activation.
C19_ClickDispatchesOnce ==
    [][/\ Len(arButtonListener') <= 1
       /\ (ClickARButton =>
             /\ (arButtonDisplay = "block" =>
                   /\ click'.defaultPrevented
                   /\ click'.activations = 1
                   /\ activation'.mode = arMode
                   /\ activation'.pc # "idle")
             /\ (arMode = NONE =>
                   /\ ~click'.defaultPrevented
                   /\ click'.activations = 0
                   /\ UNCHANGED activating))]_vars

\* the button is clicked in quick-look mode after an earlier activation in
\* another mode had its full-screen request denied: updates have selected a
\* mode more than once before this click
C19_Witness ==
    /\ click.dispatched
    /\ click.defaultPrevented
    /\ click.activations = 1
    /\ activation.mode = QUICK_LOOK
    /\ arMode = QUICK_LOOK
    /\ enterFullscreen = "rejected"
    /\ arButtonListener = <<arButtonClickHandler>>

====
